---- MODULE Spec2Model ----
(***************************************************************************)
(* Model of the sudoku-lp-solver package: solver/cell.py (Cell),            *)
(* solver/box.py (Box and its validation) and solver/sudoku.py (Sudoku:     *)
(* construction, givens parsing, box validation, constraint emission and    *)
(* the call to the LP solver).                                              *)
(***************************************************************************)
EXTENDS Integers, Sequences, FiniteSets, TLC

VARIABLES
    cells,          \* Box.cells: the list of cells handed to Box(...)
    visited_cells,  \* Box._validate_cells: local set visited_cells
    cell_queue,     \* Box._validate_cells: local set cell_queue
    box_pc,         \* position inside Box.__init__ / _validate_cells
    rows,           \* Sudoku.rows
    columns,        \* Sudoku.columns
    boxes,          \* Sudoku.boxes: a list of Box objects (their cell lists)
    givens_string,  \* the givens_string argument of Sudoku(...)
    digits,         \* Sudoku.digits: dict Cell -> digit
    pc,             \* "new", "constructed", "invalid", "solved", "unsolvable"
    solution,       \* the values the solver assigned to the cell variables
    var_a,          \* the value of the left cell variable of one all-different pair
    var_b,          \* the value of the right cell variable of that pair
    pair_result     \* whether the pair's two inequalities can hold: "none" before

box_vars == <<cells, visited_cells, cell_queue, box_pc>>

sudoku_vars == <<rows, columns, boxes, givens_string, digits, pc, solution>>

pair_vars == <<var_a, var_b, pair_result>>

vars == <<cells, visited_cells, cell_queue, box_pc,
          rows, columns, boxes, givens_string, digits, pc, solution,
          var_a, var_b, pair_result>>

----------------------------------------------------------------------------
(* Bounds of the Box model *)

\* rows of the coordinate range the cells of a Box are drawn from
BoxMaxRow == 3
\* columns of the coordinate range the cells of a Box are drawn from
BoxMaxCol == 2
\* longest cell list handed to Box(...)
MaxCells == 4

----------------------------------------------------------------------------
(* solver/cell.py *)

\* Cell(row, column): a value compared and hashed by its coordinate pair
Cell(row, column) == [row |-> row, column |-> column]

abs(x) == IF x < 0 THEN -x ELSE x

\* is_orthogonal with the row test of its second disjunct lost
is_orthogonal_NoRowTest(self, other) ==
    \/ (self.column = other.column /\ abs(self.row - other.row) = 1)
    \/ abs(self.column - other.column) = 1

\* Cell.is_orthogonal
is_orthogonal(self, other) ==
    \/ (self.column = other.column /\ abs(self.row - other.row) = 1)
    \/ (self.row = other.row /\ abs(self.column - other.column) = 1)

----------------------------------------------------------------------------
(* solver/box.py *)

\* set(self.cells)
CellSet(cs) == {cs[i] : i \in 1..Len(cs)}

\* list(filter(lambda c: cell.is_orthogonal(c), self.cells)), as the set of
\* cells the for loop adds to cell_queue
neighbors(cell, cs) == {c \in CellSet(cs) : is_orthogonal(cell, c)}

BoxCoords == {Cell(r, c) : r \in 1..BoxMaxRow, c \in 1..BoxMaxCol}

BoxInputs == UNION {[1..n -> BoxCoords] : n \in 0..MaxCells}

\* an empty dict
EmptyDict == <<>>

\* no Sudoku object is under construction
NoSudoku ==
    /\ rows = 0
    /\ columns = 0
    /\ boxes = <<>>
    /\ givens_string = [is_none |-> TRUE, str |-> <<>>]
    /\ digits = EmptyDict
    /\ pc = "idle"
    /\ solution = EmptyDict

\* no single pair of cell values is under test
NoPair ==
    /\ var_a = 0
    /\ var_b = 0
    /\ pair_result = "none"

BoxInit ==
    /\ NoSudoku
    /\ NoPair
    /\ cells \in BoxInputs
    /\ visited_cells = {}
    /\ cell_queue = {}
    /\ box_pc = "start"

\* the two leading assertions, then the set-up of the traversal
BoxAsserts ==
    /\ box_pc = "start"
    /\ IF Len(cells) > 0 /\ Cardinality(CellSet(cells)) = Len(cells)
       THEN /\ visited_cells' = {}
            /\ cell_queue' = {cells[1]}
            /\ box_pc' = "loop"
       ELSE /\ box_pc' = "invalid"
            /\ UNCHANGED <<visited_cells, cell_queue>>
    /\ UNCHANGED <<cells, sudoku_vars, pair_vars>>

\* the loop body without its "if cell in visited_cells: continue"
LoopBody_NoVisitedCheck(cell) ==
    /\ visited_cells' = visited_cells \cup {cell}
    /\ cell_queue' = (cell_queue \ {cell}) \cup neighbors(cell, cells)

\* the effect of one iteration of the while loop on (visited_cells, cell_queue)
\* once cell_queue.pop() has returned cell
LoopBody(cell) ==
    IF cell \in visited_cells
    THEN /\ cell_queue' = cell_queue \ {cell}
         /\ UNCHANGED visited_cells
    ELSE /\ visited_cells' = visited_cells \cup {cell}
         /\ cell_queue' = (cell_queue \ {cell}) \cup neighbors(cell, cells)

\* one iteration of the while loop: set.pop() returns an arbitrary element
LoopStep ==
    /\ box_pc = "loop"
    /\ Cardinality(cell_queue) > 0
    /\ \E cell \in cell_queue : LoopBody(cell)
    /\ UNCHANGED <<cells, box_pc, sudoku_vars, pair_vars>>

\* the loop has ended: the closing assertion
FinalAssert ==
    /\ box_pc = "loop"
    /\ Cardinality(cell_queue) = 0
    /\ box_pc' = IF Cardinality(visited_cells) = Len(cells) THEN "valid" ELSE "invalid"
    /\ UNCHANGED <<cells, visited_cells, cell_queue, sudoku_vars, pair_vars>>

BoxNext == BoxAsserts \/ LoopStep \/ FinalAssert

SpecBox == BoxInit /\ [][BoxNext]_vars

----------------------------------------------------------------------------
(* solver/sudoku.py: Sudoku.__init__, _validate_boxes, _add_givens_from_string *)

\* largest rows / columns value handed to Sudoku(...) when the boxes vary
MaxDim == 2
\* longest list of boxes handed to Sudoku(...) when the boxes vary
MaxBoxes == 3
\* largest board size when the givens string varies
MaxGivensN == 2
\* most characters other than '0' in a givens string
MaxMarks == 3

\* the Optional[str] argument: None, or a string as its list of characters
None == [is_none |-> TRUE, str |-> <<>>]
Str(s) == [is_none |-> FALSE, str |-> s]

\* no box cell list is being validated
NoBox ==
    /\ cells = <<>>
    /\ visited_cells = {}
    /\ cell_queue = {}
    /\ box_pc = "idle"

\* the characters '0'..'9' in order
DigitChars == <<"0", "1", "2", "3", "4", "5", "6", "7", "8", "9">>

\* str.isdigit() of a one-character string
isdigit(char) == \E d \in 1..Len(DigitChars) : DigitChars[d] = char

\* int(char) of a one-character digit string
int(char) == (CHOOSE d \in 1..Len(DigitChars) : DigitChars[d] = char) - 1

\* givens_string.replace(".", "0")
replace_dots(s) == [i \in 1..Len(s) |-> IF s[i] = "." THEN "0" ELSE s[i]]

\* dict.update({key: value})
dict_update(d, key, value) ==
    [k \in DOMAIN d \cup {key} |-> IF k = key THEN value ELSE d[k]]

\* the row computed for a 0-based index, with the divisor off by the column count
row_of_mod(index, nrows) == (index % nrows) + 1

\* row = index // self.rows + 1
row_of(index, nrows) == (index \div nrows) + 1

\* column = index % self.columns + 1
column_of(index, ncolumns) == (index % ncolumns) + 1

\* Sudoku._add_givens_from_string: the for loop from position index on, d
\* being self.digits so far; ok is FALSE when assert char.isdigit() fails
RECURSIVE add_givens_from(_, _, _, _, _)
add_givens_from(s, index, d, nrows, ncolumns) ==
    IF index >= Len(s)
    THEN [ok |-> TRUE, digits |-> d]
    ELSE LET char == s[index + 1] IN
         IF ~isdigit(char)
         THEN [ok |-> FALSE, digits |-> d]
         ELSE LET digit == int(char)
                  row == row_of(index, nrows)
                  column == column_of(index, ncolumns)
              IN  add_givens_from(s, index + 1,
                      IF digit # 0 THEN dict_update(d, Cell(row, column), digit) ELSE d,
                      nrows, ncolumns)

_add_givens_from_string(s, nrows, ncolumns) ==
    add_givens_from(s, 0, EmptyDict, nrows, ncolumns)

\* the set box_cells built by the two nested loops of _validate_boxes
box_cells(bs) == UNION {CellSet(bs[i]) : i \in 1..Len(bs)}

\* Sudoku._validate_boxes: TRUE when none of its assertions fails
_validate_boxes(nrows, ncolumns, bs) ==
    /\ \A i \in 1..Len(bs) : Len(bs[i]) # 0
    /\ Cardinality(box_cells(bs)) = nrows * ncolumns
    /\ \A row \in 1..nrows, column \in 1..ncolumns : Cell(row, column) \in box_cells(bs)

\* Sudoku.__init__: the outcome, as the new pc and self.digits
init_result ==
    IF rows # columns THEN [pc |-> "invalid", digits |-> EmptyDict]
    ELSE IF ~_validate_boxes(rows, columns, boxes) THEN [pc |-> "invalid", digits |-> EmptyDict]
    ELSE IF givens_string.is_none THEN [pc |-> "constructed", digits |-> EmptyDict]
    ELSE IF Len(givens_string.str) # rows * columns THEN [pc |-> "invalid", digits |-> EmptyDict]
    ELSE LET r == _add_givens_from_string(replace_dots(givens_string.str), rows, columns) IN
         IF r.ok THEN [pc |-> "constructed", digits |-> r.digits]
         ELSE [pc |-> "invalid", digits |-> EmptyDict]

Sudoku_init ==
    /\ pc = "new"
    /\ pc' = init_result.pc
    /\ digits' = init_result.digits
    /\ UNCHANGED <<rows, columns, boxes, givens_string, solution, box_vars, pair_vars>>

\* the cells of a set in row-major order
RECURSIVE SetToSeq(_)
SetToSeq(S) ==
    IF S = {} THEN <<>>
    ELSE LET x == CHOOSE c \in S : \A o \in S :
                     c.row < o.row \/ (c.row = o.row /\ c.column <= o.column)
         IN  <<x>> \o SetToSeq(S \ {x})

\* a cell set is one component of the orthogonal adjacency graph
RECURSIVE Reach(_, _)
Reach(R, S) ==
    LET T == R \cup {c \in S : \E r \in R : is_orthogonal(r, c)} IN
    IF T = R THEN R ELSE Reach(T, S)

\* the cell lists Box(...) accepts among the lists of distinct cells of S,
\* one list per set of cells
BoxesWithin(S) ==
    {SetToSeq(B) : B \in {T \in SUBSET S : T # {} /\ Reach({CHOOSE c \in T : TRUE}, T) = T}}

Grid(nrows, ncolumns) == {Cell(r, c) : r \in 1..nrows, c \in 1..ncolumns}

\* the lists of at most MaxBoxes Box objects over the cells with coordinates
\* in 1..MaxDim+1 (one row and one column beyond the largest board)
BoardBoxLists ==
    UNION {[1..n -> BoxesWithin(Grid(MaxDim + 1, MaxDim))] : n \in 0..MaxBoxes}

\* Sudoku(rows, columns, boxes) with any boxes and no givens string
BoardInit ==
    /\ NoBox
    /\ NoPair
    /\ rows \in 1..MaxDim
    /\ columns \in 1..MaxDim
    /\ boxes \in BoardBoxLists
    /\ givens_string = None
    /\ digits = EmptyDict
    /\ pc = "new"
    /\ solution = EmptyDict

Spec == BoardInit /\ [][Sudoku_init]_vars

\* givens_string is a string of n characters that are u everywhere but in at
\* most k positions, which hold a character of marks
SparseGivens(n, k, u, marks) ==
    \E P \in SUBSET (1..n) :
        /\ Cardinality(P) <= k
        /\ \E f \in [P -> marks] :
              givens_string = Str([i \in 1..n |-> IF i \in P THEN f[i] ELSE u])

\* the characters a givens string holds besides '0'
GivensMarks == {".", "1", "2", "9", "x"}

\* the rows of an N x N grid as its boxes
RowBoxes(N) == [r \in 1..N |-> [c \in 1..N |-> Cell(r, c)]]

\* Sudoku(N, N, boxes, givens_string) with a givens string of at most MaxMarks
\* characters other than '0' whose length is rows * columns or one off
GivensInit ==
    /\ NoBox
    /\ NoPair
    /\ rows \in 1..MaxGivensN
    /\ columns = rows
    /\ boxes = RowBoxes(rows)
    /\ \E n \in {rows * columns - 1, rows * columns, rows * columns + 1} :
          SparseGivens(n, MaxMarks, "0", GivensMarks)
    /\ digits = EmptyDict
    /\ pc = "new"
    /\ solution = EmptyDict

SpecGivens == GivensInit /\ [][Sudoku_init]_vars

----------------------------------------------------------------------------
(* solver/sudoku.py: Sudoku.solve *)

\* largest board size handed to solve
MaxSolveN == 3
\* most non-zero digits in a givens string handed to a board that is solved
MaxGivenDigits == 2

\* max_cell_value = max(self.rows, self.columns)
max_cell_value(nrows, ncolumns) == IF nrows >= ncolumns THEN nrows ELSE ncolumns

\* valid_cell_numbers = list(range(min_cell_value, max_cell_value + 1))
valid_cell_numbers(nrows, ncolumns) == 1..max_cell_value(nrows, ncolumns)

\* sum(valid_cell_numbers)
RECURSIVE sum_upto(_)
sum_upto(n) == IF n <= 0 THEN 0 ELSE n + sum_upto(n - 1)

\* the first inequality with the constant one too small
first_inequality_SmallM(a, b, M, bin_var) == a <= b - 1 + (M - 1) * bin_var

\* cells[..] <= cells[..] - 1 + max_cell_value * bin_var
first_inequality(a, b, M, bin_var) == a <= b - 1 + M * bin_var

\* the second inequality with bin_var in place of (1 - bin_var)
second_inequality_WrongBin(a, b, M, bin_var) == a >= b + 1 - M * bin_var

\* cells[..] >= cells[..] + 1 - max_cell_value * (1 - bin_var)
second_inequality(a, b, M, bin_var) == a >= b + 1 - M * (1 - bin_var)

\* the two inequalities of one pair hold for some value of their own
\* bin_var, an integer variable with bounds 0 and 1 used nowhere else
pair_satisfied(a, b, M) ==
    \E bin_var \in 0..1 :
        first_inequality(a, b, M, bin_var) /\ second_inequality(a, b, M, bin_var)

\* the row loop with the filter c > column + 1 in place of c > column
row_pairs_SkipNext(V) ==
    UNION {{[a |-> Cell(row, column), b |-> Cell(row, c), scope |-> "row"] :
               c \in {x \in V : x > column + 1}} : row \in V, column \in V}

\* the pairs the row loop constrains: columns_to_right of every cell
row_pairs(V) ==
    UNION {{[a |-> Cell(row, column), b |-> Cell(row, c), scope |-> "row"] :
               c \in {x \in V : x > column}} : row \in V, column \in V}

\* the column loop with the filter r >= row in place of r > row
column_pairs_Inclusive(V) ==
    UNION {{[a |-> Cell(row, column), b |-> Cell(r, column), scope |-> "column"] :
               r \in {x \in V : x >= row}} : column \in V, row \in V}

\* the pairs the column loop constrains: rows_to_right of every cell
column_pairs(V) ==
    UNION {{[a |-> Cell(row, column), b |-> Cell(r, column), scope |-> "column"] :
               r \in {x \in V : x > row}} : column \in V, row \in V}

\* the lpSum(...) == sum(valid_cell_numbers) equalities of the row loop
row_sums(V, total) ==
    {[cells |-> {Cell(row, c) : c \in V}, total |-> total] : row \in V}

\* the lpSum(...) == sum(valid_cell_numbers) equalities of the column loop
column_sums(V, total) ==
    {[cells |-> {Cell(r, column) : r \in V}, total |-> total] : column \in V}

\* Box.add_box_constraint: one all-different pair for every two cells of the box
add_box_constraint(box) ==
    UNION {{[a |-> box[j], b |-> box[k], scope |-> "box"] :
               k \in {x \in 1..Len(box) : x > j}} : j \in 1..Len(box)}

\* cells[cell.row][cell.column] == value for every item of self.digits
given_equalities(d) == {[a |-> cell, value |-> d[cell]] : cell \in DOMAIN d}

\* the constraints solve() adds to the LpProblem
constraint_system(nrows, ncolumns, bs, d) ==
    LET V == valid_cell_numbers(nrows, ncolumns) IN
    [sums  |-> row_sums(V, sum_upto(max_cell_value(nrows, ncolumns)))
               \cup column_sums(V, sum_upto(max_cell_value(nrows, ncolumns))),
     pairs |-> row_pairs(V) \cup column_pairs(V)
               \cup UNION {add_box_constraint(bs[i]) : i \in 1..Len(bs)},
     eqs   |-> given_equalities(d)]

\* the sum of the values a assigns to the cells of S
RECURSIVE SumOver(_, _)
SumOver(a, S) ==
    IF S = {} THEN 0
    ELSE LET x == CHOOSE c \in S : TRUE IN a[x] + SumOver(a, S \ {x})

\* the assignments of values min_cell_value..max_cell_value to the cell
\* variables order[1..Len(order)] that extend a member of partials (each an
\* assignment to order[1..k-1]) and satisfy sys; a constraint is tested as
\* soon as all its variables have a value
RECURSIVE Extend(_, _, _, _, _)
Extend(sys, M, order, k, partials) ==
    IF k > Len(order) THEN partials
    ELSE LET x == order[k]
             done == {order[i] : i \in 1..k}
             eqs == {e \in sys.eqs : e.a = x}
             pairs == {p \in sys.pairs : x \in {p.a, p.b} /\ {p.a, p.b} \subseteq done}
             sums == {sm \in sys.sums : x \in sm.cells /\ sm.cells \subseteq done}
         IN  Extend(sys, M, order, k + 1,
                 {a \in {dict_update(p, x, v) : p \in partials, v \in 1..M} :
                      /\ \A e \in eqs : a[x] = e.value
                      /\ \A p \in pairs : pair_satisfied(a[p.a], a[p.b], M)
                      /\ \A sm \in sums : SumOver(a, sm.cells) = sm.total})

\* what the solver can answer: every assignment of the integer cell
\* variables within their bounds that satisfies all the constraints
Solutions(sys, M) == Extend(sys, M, SetToSeq(Grid(M, M)), 1, {EmptyDict})

solve ==
    /\ pc = "constructed"
    /\ LET M == max_cell_value(rows, columns)
           sols == Solutions(constraint_system(rows, columns, boxes, digits), M)
       IN  IF sols = {}
           THEN /\ pc' = "unsolvable"
                /\ solution' = EmptyDict
           ELSE /\ pc' = "solved"
                /\ \E s \in sols : solution' = s
    /\ UNCHANGED <<rows, columns, boxes, givens_string, digits, box_vars, pair_vars>>

\* the connected cell sets of n cells within S that extend a member of Ts,
\* a set of connected cell sets of k cells each
RECURSIVE GrowTo(_, _, _, _)
GrowTo(Ts, k, S, n) ==
    IF k >= n THEN Ts
    ELSE GrowTo({T \cup {c} : <<T, c>> \in
                    {tc \in Ts \X S : /\ tc[2] \notin tc[1]
                                       /\ \E t \in tc[1] : is_orthogonal(t, tc[2])}},
                k + 1, S, n)

\* the ways to cut the cell set S into connected boxes of n cells each, as
\* lists of Box objects ordered by their first cell
RECURSIVE EqualPartitions(_, _)
EqualPartitions(S, n) ==
    IF S = {} THEN {<<>>}
    ELSE UNION {{<<SetToSeq(B)>> \o rest : rest \in EqualPartitions(S \ B, n)} :
                   B \in GrowTo({{SetToSeq(S)[1]}}, 1, S, n)}

\* the box lists of the boards that are solved: the N x N grid cut into
\* boxes of one size
SolveBoxLists(N) ==
    UNION {EqualPartitions(Grid(N, N), n) : n \in {d \in 1..N * N : (N * N) % d = 0}}

\* givens_string is a givens string of a board of size N with at most
\* MaxGivenDigits digits other than 0, the unknown positions written with
\* the character u
GivensWith(N, u) ==
    SparseGivens(N * N, MaxGivenDigits, u, {DigitChars[d + 1] : d \in 1..(N + 1)})

SolveInit ==
    /\ NoBox
    /\ NoPair
    /\ rows \in 1..MaxSolveN
    /\ columns = rows
    /\ boxes \in SolveBoxLists(rows)
    /\ \/ givens_string = None
       \/ GivensWith(rows, "0")
       \/ GivensWith(rows, ".")
    /\ digits = EmptyDict
    /\ pc = "new"
    /\ solution = EmptyDict

SolveNext == Sudoku_init \/ solve

SpecSolve == SolveInit /\ [][SolveNext]_vars

----------------------------------------------------------------------------
(* One all-different pair of solve() on its own *)

\* largest board size whose pair encoding is tested value by value
MaxPairN == 8

PairInit ==
    /\ NoBox
    /\ rows \in 1..MaxPairN
    /\ columns = rows
    /\ boxes = <<>>
    /\ givens_string = None
    /\ digits = EmptyDict
    /\ pc = "idle"
    /\ solution = EmptyDict
    /\ var_a \in 1..rows
    /\ var_b \in 1..rows
    /\ pair_result = "none"

\* the two inequalities solve() emits for one pair, given to the solver with
\* the two cell variables fixed
encode_pair ==
    /\ pair_result = "none"
    /\ pair_result' = IF pair_satisfied(var_a, var_b, max_cell_value(rows, columns))
                      THEN "feasible" ELSE "infeasible"
    /\ UNCHANGED <<var_a, var_b, box_vars, sudoku_vars>>

SpecPair == PairInit /\ [][encode_pair]_vars

----------------------------------------------------------------------------
(* Properties of Box validation *)

\* two cells share an edge of the grid
Adjacent(p, q) == abs(p.row - q.row) + abs(p.column - q.column) = 1

\* S is one component of the adjacency graph: every split of S into two
\* non-empty parts is crossed by an edge
Connected(S) ==
    \A P \in SUBSET S :
        (P # {} /\ P # S) => \E p \in P, q \in S \ P : Adjacent(p, q)

\* C is the connected component of x within S
IsComponentOf(C, x, S) ==
    /\ x \in C
    /\ C \subseteq S
    /\ Connected(C)
    /\ \A p \in C, q \in S \ C : ~Adjacent(p, q)

NoRepeat(cs) == \A i, j \in 1..Len(cs) : i # j => cs[i] # cs[j]

BoxDone == box_pc \in {"valid", "invalid"}

\* C2: Box construction succeeds exactly when the cell list is non-empty,
\* has no repeated cell and is connected under orthogonal adjacency within
\* the region; the traversal started at the first cell visits exactly the
\* connected component of that cell.
C2_BoxValidIffConnected ==
    BoxDone =>
        /\ (box_pc = "valid") <=>
               (Len(cells) > 0 /\ NoRepeat(cells) /\ Connected(CellSet(cells)))
        /\ (Len(cells) > 0 /\ NoRepeat(cells)) =>
               IsComponentOf(visited_cells, cells[1], CellSet(cells))

\* a region of two 2-cell clusters with no shared edge has been rejected
\* after the traversal visited one cluster only
C2_Witness ==
    /\ box_pc = "invalid"
    /\ Len(cells) = 4
    /\ NoRepeat(cells)
    /\ Cardinality(visited_cells) = 2
    /\ \E p \in CellSet(cells) \ visited_cells, q \in CellSet(cells) \ visited_cells :
           Adjacent(p, q)

\* the measure that falls with every iteration: unvisited cells first, then
\* the size of the work set
Variant(v, q) ==
    (Len(cells) - Cardinality(v)) * (Len(cells) + 1) + Cardinality(q)

\* what one iteration of the loop does
IterationShape ==
    \/ \E c \in cell_queue \cap visited_cells :
          /\ cell_queue' = cell_queue \ {c}
          /\ visited_cells' = visited_cells
    \/ \E c \in CellSet(cells) \ visited_cells :
          visited_cells' = visited_cells \cup {c}

\* C10: the connectivity traversal terminates: every iteration either drops
\* an already-visited cell from the work set or adds a new cell to the
\* visited set, so a measure bounded below falls; the visited set never
\* leaves the region; the loop can always go on until the work set is
\* empty, and it ends with an empty work set.
C10_TraversalTerminates ==
    /\ [][(box_pc = "loop" /\ box_pc' = "loop") =>
              /\ IterationShape
              /\ Variant(visited_cells', cell_queue') < Variant(visited_cells, cell_queue)
              /\ Variant(visited_cells', cell_queue') >= 0]_vars
    /\ [](visited_cells \subseteq CellSet(cells))
    /\ [](box_pc = "loop" => (ENABLED LoopStep \/ ENABLED FinalAssert))
    /\ [](box_pc = "valid" \/ (box_pc = "invalid" /\ visited_cells # {})
              => cell_queue = {})

\* the traversal is about to drop an already-visited cell from the work set
C10_Witness ==
    /\ box_pc = "loop"
    /\ Cardinality(visited_cells) >= 2
    /\ cell_queue \cap visited_cells # {}
    /\ cell_queue \ visited_cells # {}

----------------------------------------------------------------------------
(* Properties of Sudoku construction *)

\* the indices of the boxes that hold the cell
BoxesHolding(cell) == {i \in 1..Len(boxes) : \E j \in 1..Len(boxes[i]) : boxes[i][j] = cell}

\* every cell of the grid lies in some box
CoversGrid == \A cell \in Grid(rows, columns) : BoxesHolding(cell) # {}

\* C1: every Board that is constructed has regions that partition the grid:
\* each grid cell lies in exactly one region and no region holds a cell
\* outside the grid (so overlapping regions and uncovered cells both make
\* construction fail).
C1_RegionsPartitionGrid ==
    pc = "constructed" =>
        /\ \A cell \in Grid(rows, columns) : Cardinality(BoxesHolding(cell)) = 1
        /\ \A i \in 1..Len(boxes) : \A j \in 1..Len(boxes[i]) :
              boxes[i][j] \in Grid(rows, columns)

\* C9: a Board whose regions cover the grid but differ in their number of
\* cells fails construction.
C9_UnequalBoxesRejected ==
    (/\ pc # "new"
     /\ rows = columns
     /\ CoversGrid
     /\ \E i, j \in 1..Len(boxes) : Len(boxes[i]) # Len(boxes[j]))
        => pc = "invalid"

\* C5: after a successful construction every recorded given has its row and
\* column in 1..N and its digit in the domain 1..N, whatever the size N.
C5_GivensInRangeAndDomain ==
    pc = "constructed" =>
        \A cell \in DOMAIN digits :
            /\ cell.row \in 1..rows
            /\ cell.column \in 1..columns
            /\ digits[cell] \in 1..rows

\* the value of the characters '1'..'9'
DigitValue ==
    ("1" :> 1) @@ ("2" :> 2) @@ ("3" :> 3) @@ ("4" :> 4) @@ ("5" :> 5) @@
    ("6" :> 6) @@ ("7" :> 7) @@ ("8" :> 8) @@ ("9" :> 9)

\* the cell of the 0-indexed position i of a givens string
PositionCell(i) == Cell((i \div rows) + 1, (i % columns) + 1)

\* C6: for a givens string of length rows*columns over 0-9 and '.', the
\* recorded givens are exactly: position i holding a digit d other than 0
\* records Cell(i div rows + 1, i mod columns + 1) -> d, positions holding
\* '0' or '.' record nothing, distinct positions map to distinct cells; a
\* string of any other length makes construction fail.
C6_GivensMapExact ==
    (pc # "new" /\ ~givens_string.is_none) =>
        LET str == givens_string.str
            n == Len(str)
        IN  /\ n # rows * columns => pc = "invalid"
            /\ (/\ n = rows * columns
                /\ \A i \in 1..n : str[i] \in DOMAIN DigitValue \cup {"0", "."})
               => /\ pc = "constructed"
                  /\ \A i, j \in 0..(n - 1) : i # j => PositionCell(i) # PositionCell(j)
                  /\ DOMAIN digits =
                        {PositionCell(i) : i \in {k \in 0..(n - 1) : str[k + 1] \in DOMAIN DigitValue}}
                  /\ \A i \in 0..(n - 1) :
                        str[i + 1] \in DOMAIN DigitValue =>
                            digits[PositionCell(i)] = DigitValue[str[i + 1]]

\* a 2 x 2 board has recorded two givens from a string that also holds a '.'
C6_Witness ==
    /\ pc = "constructed"
    /\ rows = 2
    /\ ~givens_string.is_none
    /\ \E i \in 1..Len(givens_string.str) : givens_string.str[i] = "."
    /\ Cardinality(DOMAIN digits) = 2
    /\ Cell(2, 1) \in DOMAIN digits

----------------------------------------------------------------------------
(* Properties of solve *)

\* the arrangements of 1..N in a row
Perms(N) == {f \in [1..N -> 1..N] : \A i, j \in 1..N : i # j => f[i] # f[j]}

\* the complete grids whose rows each hold every digit once
LatinRowGrids(N) ==
    {[cell \in Grid(N, N) |-> rs[cell.row][cell.column]] : rs \in [1..N -> Perms(N)]}

\* g is a complete grid in which every row, every column and every region
\* holds each digit 1..N exactly once and every given position its digit
IsSudokuSolution(g) ==
    /\ DOMAIN g = Grid(rows, columns)
    /\ \A cell \in DOMAIN digits : cell \in DOMAIN g /\ g[cell] = digits[cell]
    /\ \A i \in 1..Len(boxes) : \A d \in 1..rows :
          Cardinality({j \in 1..Len(boxes[i]) : g[boxes[i][j]] = d}) = 1
    /\ \A c \in 1..columns : \A d \in 1..rows :
          Cardinality({r \in 1..rows : g[Cell(r, c)] = d}) = 1
    /\ \A r \in 1..rows : \A d \in 1..rows :
          Cardinality({c \in 1..columns : g[Cell(r, c)] = d}) = 1

\* two distinct cells share a row, a column or a region
ShareScope(p, q) ==
    \/ p.row = q.row
    \/ p.column = q.column
    \/ BoxesHolding(p) \cap BoxesHolding(q) # {}

SolveDone == pc \in {"solved", "unsolvable"}

\* C3: for a validly constructed board whose givens admit a solution, solve
\* produces a complete grid in which every row, every column and every region
\* holds each digit 1..N exactly once and every given position holds its
\* digit; an all-different pair is emitted for every two cells that share a
\* row, a column or a region.
C3_SolveYieldsSudokuSolution ==
    SolveDone =>
        /\ \/ (pc = "solved" /\ IsSudokuSolution(solution))
           \/ ~\E g \in LatinRowGrids(rows) : IsSudokuSolution(g)
        /\ LET emitted == {{pr.a, pr.b} :
                              pr \in constraint_system(rows, columns, boxes, digits).pairs}
           IN  \A p, q \in Grid(rows, columns) :
                  (p # q /\ ShareScope(p, q)) => {p, q} \in emitted

\* a 3 x 3 board of three boxes, one of them bent, has been solved with givens
C3_Witness ==
    /\ pc = "solved"
    /\ rows = 3
    /\ Len(boxes) = 3
    /\ \E i \in 1..3 : /\ \E j, k \in 1..3 : boxes[i][j].row # boxes[i][k].row
                       /\ \E j, k \in 1..3 : boxes[i][j].column # boxes[i][k].column
    /\ Cardinality(DOMAIN digits) = 2
    /\ IsSudokuSolution(solution)

\* the givens string places one non-zero digit twice in one row and leaves
\* every other position unknown
SameDigitTwiceInRow ==
    /\ ~givens_string.is_none
    /\ Len(givens_string.str) = rows * columns
    /\ \E i, j \in 0..(rows * columns - 1) :
          /\ i < j
          /\ i \div columns = j \div columns
          /\ givens_string.str[i + 1] \in DOMAIN DigitValue
          /\ givens_string.str[j + 1] = givens_string.str[i + 1]
          /\ \A k \in 0..(rows * columns - 1) :
                k \notin {i, j} => givens_string.str[k + 1] \in {"0", "."}

\* C4: for a structurally valid board whose givens string places the same
\* non-zero digit twice in one row, all other positions unknown, construction
\* succeeds and solve ends unsolvable, never with a grid.
C4_DuplicateInRowUnsolvable ==
    (pc \notin {"new", "constructed"} /\ SameDigitTwiceInRow) => pc = "unsolvable"

\* a 3 x 3 board with the digit 2 twice in one row has been found unsolvable
C4_Witness ==
    /\ pc = "unsolvable"
    /\ rows = 3
    /\ Len(boxes) = 3
    /\ SameDigitTwiceInRow
    /\ \E cell \in DOMAIN digits : digits[cell] = 2

\* the constraint system with its sum equalities removed
without_sums(sys) == [sys EXCEPT !.sums = {}]

\* C8: the row and column sum equalities are redundant: with them and
\* without them the constraint system has the same satisfying assignments,
\* hence the same solvable / unsolvable verdict.
C8_SumsRedundant ==
    SolveDone =>
        LET M == max_cell_value(rows, columns)
            sys == constraint_system(rows, columns, boxes, digits)
            kept == Solutions(sys, M)
            dropped == Solutions(without_sums(sys), M)
        IN  /\ sys.sums # {}
            /\ kept = dropped
            /\ (pc = "unsolvable") <=> (dropped = {})
            /\ pc = "solved" => solution \in dropped

\* a 3 x 3 board of one-cell boxes, constrained by its rows and columns
\* alone, has been solved with two givens
C8_Witness ==
    /\ pc = "solved"
    /\ rows = 3
    /\ Len(boxes) = 9
    /\ Cardinality(DOMAIN digits) = 2

----------------------------------------------------------------------------
(* Property of the all-different encoding *)

\* C7: for all values a, b in 1..M with M = max(rows, columns), some value
\* of the indicator in {0, 1} satisfies both inequalities if and only if
\* a # b.
C7_BigMExact ==
    pair_result # "none" =>
        /\ var_a \in 1..max_cell_value(rows, columns)
        /\ var_b \in 1..max_cell_value(rows, columns)
        /\ (pair_result = "feasible") <=> (var_a # var_b)

\* the pair with the largest difference the domain allows has been accepted
C7_Witness ==
    /\ pair_result = "feasible"
    /\ rows >= 3
    /\ var_a = rows
    /\ var_b = 1

====
